---- MODULE Spec2Model ----
(***************************************************************************)
(* Model of python_service/server.py: the POST /chatkit/message handler    *)
(* `send` (validation, request normalisation, the provider call with its   *)
(* single retry, text extraction, serialisation and redaction).            *)
(*                                                                         *)
(* Python values are tagged records: None, a missing key or attribute      *)
(* (Absent), str, list and dict.  A dict keeps its entries in insertion    *)
(* order, as a sequence of <<key, value>> pairs.                           *)
(***************************************************************************)
EXTENDS Naturals, Sequences, FiniteSets, TLC

VARIABLES client, pc, payload, NO_RETRIEVAL, calls, results, resp, response,
          doc, once, twice

vars == <<client, pc, payload, NO_RETRIEVAL, calls, results, resp, response,
          doc, once, twice>>

handlerVars == <<client, pc, payload, NO_RETRIEVAL, calls, results, resp, response>>
redactVars == <<doc, once, twice>>

(* ------------------------------------------------------------------ *)
(* Python values                                                       *)
(* ------------------------------------------------------------------ *)
None == [k |-> "none"]
Absent == [k |-> "absent"]
Str(s) == [k |-> "str", s |-> s]
List(q) == [k |-> "list", items |-> q]
Dict(kv) == [k |-> "dict", kv |-> kv]

\* Python truthiness of a value (`not x`, `x or y`, `if x`).
Truthy(v) ==
    CASE v.k = "str" -> v.s # ""
      [] v.k = "list" -> v.items # <<>>
      [] v.k = "dict" -> v.kv # <<>>
      [] OTHER -> FALSE

\* payload.get(key, default): the default only when the key is missing.
Get(p, key, default) == IF p[key] = Absent THEN default ELSE p[key]

\* x or y
Or(x, y) == IF Truthy(x) THEN x ELSE y

(* ------------------------------------------------------------------ *)
(* Redaction                                                           *)
(* ------------------------------------------------------------------ *)
RedactedKeys == {"file_id", "file_ids", "vector_store_id", "vector_store_ids", "tool_resources"}

\* A redaction that loses its place when it drops an entry: the entry after a
\* dropped one is kept unexamined.
RECURSIVE RedactSkipping(_)
RECURSIVE RedactSkippingFrom(_, _)
RedactSkippingFrom(kv, i) ==
    IF i > Len(kv) THEN <<>>
    ELSE IF kv[i][1] \in RedactedKeys
         THEN (IF i + 1 > Len(kv) THEN <<>>
               ELSE <<kv[i + 1]>> \o RedactSkippingFrom(kv, i + 2))
         ELSE << <<kv[i][1], RedactSkipping(kv[i][2])>> >> \o RedactSkippingFrom(kv, i + 1)
RedactSkipping(obj) ==
    CASE obj.k = "dict" -> Dict(RedactSkippingFrom(obj.kv, 1))
      [] obj.k = "list" -> List([i \in 1..Len(obj.items) |-> RedactSkipping(obj.items[i])])
      [] OTHER -> obj

\* A redaction that does not descend into lists.
RECURSIVE RedactNoLists(_)
RedactNoLists(obj) ==
    CASE obj.k = "dict" ->
            LET kept == SelectSeq(obj.kv, LAMBDA e : e[1] \notin RedactedKeys)
            IN  Dict([i \in 1..Len(kept) |-> <<kept[i][1], RedactNoLists(kept[i][2])>>])
      [] OTHER -> obj

\* _redact(obj): None stays None; a dict loses every entry whose key is one of
\* RedactedKeys and has its other values redacted; a list has its items
\* redacted; anything else is returned as it is.
RECURSIVE _redact(_)
_redact(obj) ==
    CASE obj.k = "none" -> None
      [] obj.k = "dict" ->
            LET kept == SelectSeq(obj.kv, LAMBDA e : e[1] \notin RedactedKeys)
            IN  Dict([i \in 1..Len(kept) |-> <<kept[i][1], _redact(kept[i][2])>>])
      [] obj.k = "list" -> List([i \in 1..Len(obj.items) |-> _redact(obj.items[i])])
      [] OTHER -> obj

(* ------------------------------------------------------------------ *)
(* Bounded sets of JSON documents (what resp.to_dict() can return)     *)
(* ------------------------------------------------------------------ *)
\* Largest number of nodes (dicts, lists, primitives) of a document.
MaxDocNodes == 3

DocKeys == RedactedKeys \cup {"output"}
DocPrims == {Str("a")}

KeysOf(d) == {d.kv[i][1] : i \in 1..Len(d.kv)}

RECURSIVE DocsOfSize(_)
RECURSIVE DictsOfSize(_)
RECURSIVE ListsOfSize(_)
DictsOfSize(n) ==
    IF n = 1 THEN {Dict(<<>>)}
    ELSE UNION { UNION { { Dict(<< <<key, d>> >> \o m.kv) :
                             key \in DocKeys \ KeysOf(m), d \in DocsOfSize(i) } :
                         m \in DictsOfSize(n - i) } :
                 i \in 1..(n - 1) }
ListsOfSize(n) ==
    IF n = 1 THEN {List(<<>>)}
    ELSE UNION { { List(<<d>> \o l.items) : d \in DocsOfSize(i), l \in ListsOfSize(n - i) } :
                 i \in 1..(n - 1) }
DocsOfSize(n) ==
    IF n = 1 THEN DocPrims \cup {Dict(<<>>), List(<<>>)}
    ELSE DictsOfSize(n) \cup ListsOfSize(n)

DocsUpTo(n) == UNION {DocsOfSize(i) : i \in 1..n}

\* A raw payload: a document, or absent (None).
RawPayloads == DocsUpTo(MaxDocNodes) \cup {None}

(* ------------------------------------------------------------------ *)
(* Request normalisation (send, before the provider call)              *)
(* ------------------------------------------------------------------ *)
session_id(p) == Get(p, "session_id", None)
text(p) == Get(p, "text", Str(""))
staged_file_ids(p) == Or(Get(p, "staged_file_ids", List(<<>>)), List(<<>>))
vector_store_id(p) == Get(p, "vector_store_id", None)

\* A validation that tests for None only, and lets empty strings through.
MissingRequiredNoneOnly(p) == session_id(p) = None \/ text(p) = None

\* if not session_id or not text
MissingRequired(p) == ~Truthy(session_id(p)) \/ ~Truthy(text(p))

FileSearchTools == List(<<[type |-> "file_search"]>>)

\* Attachments that bind file_search whatever the retrieval flag says.
AttachmentsAlwaysBound(p, nr) ==
    List([i \in 1..Len(staged_file_ids(p).items) |->
            [file_id |-> staged_file_ids(p).items[i], tools |-> FileSearchTools]])

\* One attachment per staged file id, in order: the file id alone when retrieval
\* is disabled, the file id with the file_search tool otherwise.
attachments(p, nr) ==
    IF Truthy(staged_file_ids(p))
    THEN List([i \in 1..Len(staged_file_ids(p).items) |->
                 [file_id |-> staged_file_ids(p).items[i],
                  tools |-> IF nr THEN Absent ELSE FileSearchTools]])
    ELSE List(<<>>)

\* A tool-use flag that looks at the vector store only.
UseFileSearchVectorStoreOnly(p, nr) == ~nr /\ Truthy(vector_store_id(p))

use_file_search(p, nr) == ~nr /\ Truthy(Or(vector_store_id(p), attachments(p, nr)))

\* The 'attachments' key is left out when there are none.
input_message(p, nr) ==
    [role |-> "user",
     content |-> <<[type |-> "input_text", text |-> text(p).s]>>,
     attachments |-> IF Truthy(attachments(p, nr)) THEN attachments(p, nr) ELSE Absent]

\* os.getenv("OPENAI_MODEL", "gpt-5") with OPENAI_MODEL unset.
DefaultModel == "gpt-5"

\* Every value is a string; vector_store_id is left out when retrieval is disabled.
metadata(p, nr) ==
    IF nr
    THEN [route |-> "python.chat.message",
          session_id |-> session_id(p).s,
          retrieval_disabled |-> "1"]
    ELSE [route |-> "python.chat.message",
          session_id |-> session_id(p).s,
          vector_store_id |-> Or(vector_store_id(p), Str("")).s,
          retrieval_disabled |-> "0"]

\* The 'tools' key is set only when use_file_search.
base_args(p, nr) ==
    [model |-> DefaultModel,
     input |-> <<input_message(p, nr)>>,
     metadata |-> metadata(p, nr),
     tools |-> IF use_file_search(p, nr) THEN FileSearchTools ELSE Absent]

ToolResources(vs) == [file_search |-> [vector_store_ids |-> <<vs>>]]

extra(p, nr) ==
    IF ~nr /\ Truthy(vector_store_id(p))
    THEN Dict(<< <<"tool_resources", ToolResources(vector_store_id(p).s)>> >>)
    ELSE Dict(<<>>)

\* client.responses.create(**args) or client.responses.create(**args, extra_body=x)
Call(args, x) ==
    [op |-> "responses.create", args |-> args, extra_body |-> IF Truthy(x) THEN x ELSE Absent]

\* if extra: create(**base_args, extra_body=extra) else: create(**base_args)
FirstCallOf(p, nr) == Call(base_args(p, nr), extra(p, nr))

\* A retry that sends the same call again, binding included.
RetryCallKeepingExtra(p, nr) == Call(base_args(p, nr), extra(p, nr))

\* The retry: create(**base_args), with no extra_body.
RetryCallOf(p, nr) == Call(base_args(p, nr), Dict(<<>>))

(* ------------------------------------------------------------------ *)
(* Provider outcomes: an exception or a response object                *)
(* ------------------------------------------------------------------ *)
\* An exception.  class and param say what the provider signalled; msg is str(e)
\* as a sequence of fragments, and `fragment in str(e)` is membership.
Err(class, param, msg) == [k |-> "error", class |-> class, param |-> param, msg |-> msg]

Contains(msg, fragment) == \E i \in 1..Len(msg) : msg[i] = fragment

Errors ==
    { Err("unknown_parameter", "tool_resources",
          <<"Error code: 400", "Unknown parameter: 'tool_resources'", "unknown_parameter">>),
      Err("unknown_parameter", "tool_resources",
          <<"Unknown parameter: 'tool_resources'">>),
      Err("unknown_parameter", "attachments",
          <<"Error code: 400", "Unknown parameter: 'input[0].attachments'", "unknown_parameter">>),
      Err("rejected", "",
          <<"Error code: 401", "Incorrect API key provided", "invalid_api_key">>),
      Err("transport", "", <<"Connection error.">>),
      Err("unsupported", "", <<"'OpenAI' object has no attribute 'responses'">>) }

\* A retry condition that also falls back when the operation does not exist.
ShouldRetryAlsoUnsupported(nr, e) ==
    (~nr) /\ (\/ Contains(e.msg, "Unknown parameter: 'tool_resources'")
              \/ Contains(e.msg, "unknown_parameter")
              \/ Contains(e.msg, "'OpenAI' object has no attribute 'responses'"))

\* (not NO_RETRIEVAL) and ("Unknown parameter: 'tool_resources'" in str(e)
\*                         or "unknown_parameter" in str(e))
ShouldRetry(nr, e) ==
    (~nr) /\ (\/ Contains(e.msg, "Unknown parameter: 'tool_resources'")
              \/ Contains(e.msg, "unknown_parameter"))

\* A response object: its output_text, output and id attributes (Absent when
\* the object has no such attribute) and what to_dict() does: body is the
\* document it returns, or Raises.
Raises == [k |-> "raises"]
Response(ot, out, id, body) ==
    [k |-> "response", output_text |-> ot, output |-> out, id |-> id, body |-> body]

(* ------------------------------------------------------------------ *)
(* Text extraction, serialisation, the response                        *)
(* ------------------------------------------------------------------ *)
TextTypes == {Str("output_text"), Str("text")}

\* getattr(obj, name, None)
GetAttr(v) == IF v = Absent THEN None ELSE v

\* The loop over the first item's content parts: a part of a text type sets
\* out_text to its text, and the loop stops at the first such text that is truthy.
RECURSIVE ScanParts(_, _, _)
ScanParts(parts, i, cur) ==
    IF i > Len(parts) THEN cur
    ELSE IF GetAttr(parts[i].type) \in TextTypes
         THEN (IF Truthy(GetAttr(parts[i].text))
               THEN GetAttr(parts[i].text)
               ELSE ScanParts(parts, i + 1, GetAttr(parts[i].text)))
         ELSE ScanParts(parts, i + 1, cur)

\* An extraction that takes the first part of a text type, whatever its text.
RECURSIVE FirstTypedPart(_, _)
FirstTypedPart(parts, i) ==
    IF i > Len(parts) THEN None
    ELSE IF GetAttr(parts[i].type) \in TextTypes THEN GetAttr(parts[i].text)
         ELSE FirstTypedPart(parts, i + 1)
OutTextFirstTyped(r) ==
    IF Truthy(GetAttr(r.output_text)) THEN GetAttr(r.output_text)
    ELSE IF r.output = Absent \/ ~Truthy(Or(r.output, List(<<>>))) THEN None
         ELSE FirstTypedPart(Or(GetAttr(r.output.items[1].content), List(<<>>)).items, 1)

\* out_text after "Extract text defensively": the top-level output_text when
\* truthy; else the scan of the first output item, and None when reaching that
\* item raises (no output attribute, or an empty or None output).
out_text(r) ==
    IF Truthy(GetAttr(r.output_text)) THEN GetAttr(r.output_text)
    ELSE IF r.output = Absent \/ ~Truthy(Or(r.output, List(<<>>))) THEN None
         ELSE ScanParts(Or(GetAttr(r.output.items[1].content), List(<<>>)).items, 1,
                        GetAttr(r.output_text))

\* A serialisation whose failure leaves an empty dict behind.
MaybeDictEmptyOnFailure(r) == IF r.body = Raises THEN Dict(<<>>) ELSE r.body

\* maybe_dict: None, replaced by resp.to_dict() unless that raises.
maybe_dict(r) == IF r.body = Raises THEN None ELSE r.body

outgoing_raw(r, nr) == IF ~nr THEN maybe_dict(r) ELSE _redact(maybe_dict(r))

NoDetail == <<>>

\* The JSON answers of the endpoint.
Ok(r, nr) ==
    [status |-> 200, detail |-> NoDetail,
     text |-> Or(out_text(r), Str("")), response_id |-> GetAttr(r.id),
     raw |-> outgoing_raw(r, nr)]
HttpError(code, detail) ==
    [status |-> code, detail |-> detail, text |-> Absent, response_id |-> Absent, raw |-> Absent]

ClientMissingDetail == <<"OpenAI client not initialized - check OPENAI_API_KEY">>
MissingFieldsDetail == <<"Missing required fields: session_id and text">>

(* ------------------------------------------------------------------ *)
(* Bounded inputs: request payloads and provider responses             *)
(* ------------------------------------------------------------------ *)
\* Largest number of staged file ids in a request.
MaxFiles == 2
\* Largest number of content parts of an output item.
MaxParts == 2

SeqsUpTo(S, n) == UNION {[1..m -> S] : m \in 0..n}

SessionIdValues == {Absent, None, Str(""), Str("s1")}
TextValues == {Absent, None, Str(""), Str("hi")}
FileIdValues == {Str("f1"), Str("f2")}
StagedValues == {Absent, None} \cup {List(q) : q \in SeqsUpTo(FileIdValues, MaxFiles)}
VectorStoreValues == {Absent, None, Str(""), Str("vs1")}

AllPayloads ==
    [session_id : SessionIdValues, text : TextValues,
     staged_file_ids : StagedValues, vector_store_id : VectorStoreValues]

\* Requests with and without files and a vector store, and one without text.
FewPayloads ==
    [session_id : {Str("s1")}, text : {Str("hi")},
     staged_file_ids : {Absent, List(<<Str("f1")>>)}, vector_store_id : {None, Str("vs1")}]
    \cup {[session_id |-> Str("s1"), text |-> Absent,
           staged_file_ids |-> Absent, vector_store_id |-> None]}

OutputTextValues == {Absent, None, Str(""), Str("hi there")}
PartTypeValues == {Str("output_text"), Str("text"), Str("refusal")}
PartTextValues == {None, Str(""), Str("hello")}
Parts == [type : PartTypeValues, text : PartTextValues]
ContentValues == {Absent, None} \cup {List(q) : q \in SeqsUpTo(Parts, MaxParts)}
Items == [content : ContentValues]
\* A second output item, which the extraction never looks at.
LaterItem == [content |-> List(<<[type |-> Str("text"), text |-> Str("later")]>>)]
OutputValues ==
    {Absent, None, List(<<>>)}
    \cup {List(<<it>>) : it \in Items}
    \cup {List(<<it, LaterItem>>) :
            it \in {x \in Items : x.content \in {Absent, None} \/ Len(x.content.items) <= 1}}
IdValues == {Absent, Str("r1")}

SampleBody == Dict(<< <<"file_id", Str("a")>>, <<"output", Str("a")>> >>)

\* Responses that differ in what the text extraction reads.
TextResponses ==
    {Response(ot, out, id, b) :
        ot \in OutputTextValues, out \in OutputValues, id \in IdValues, b \in {Raises, SampleBody}}

\* Responses that differ in what to_dict() returns.
RawResponses ==
    {Response(Str("hi there"), List(<<>>), Str("r1"), d) : d \in DocsUpTo(MaxDocNodes)}

SampleResponses ==
    { Response(Str("hi there"), List(<<>>), Str("r1"), SampleBody),
      Response(Str(""), List(<<[content |-> List(<<[type |-> Str("text"), text |-> Str("hello")]>>)]>>),
               Absent, Raises) }

(* ------------------------------------------------------------------ *)
(* The handler: POST /chatkit/message                                  *)
(* ------------------------------------------------------------------ *)
\* The module has been imported: the client is there or it is not, and no
\* request is in progress.
Init ==
    /\ client \in BOOLEAN
    /\ pc = "idle"
    /\ payload = Absent
    /\ NO_RETRIEVAL = FALSE
    /\ calls = <<>>
    /\ results = <<>>
    /\ resp = Absent
    /\ response = Absent
    /\ doc = Absent
    /\ once = Absent
    /\ twice = Absent

\* A request arrives; NO_RETRIEVAL is what the environment says during it.
Receive(P) ==
    /\ pc = "idle"
    /\ \E p \in P, nr \in BOOLEAN :
          /\ payload' = p
          /\ NO_RETRIEVAL' = nr
    /\ pc' = "received"
    /\ UNCHANGED <<client, calls, results, resp, response>>
    /\ UNCHANGED redactVars

\* if not client: raise HTTPException(500, ...)
ClientMissing ==
    /\ pc = "received"
    /\ ~client
    /\ response' = HttpError(500, ClientMissingDetail)
    /\ pc' = "done"
    /\ UNCHANGED <<client, payload, NO_RETRIEVAL, calls, results, resp>>
    /\ UNCHANGED redactVars

\* if not session_id or not text: raise HTTPException(400, ...), re-raised by
\* `except HTTPException: raise`.
Reject ==
    /\ pc = "received"
    /\ client
    /\ MissingRequired(payload)
    /\ response' = HttpError(400, MissingFieldsDetail)
    /\ pc' = "done"
    /\ UNCHANGED <<client, payload, NO_RETRIEVAL, calls, results, resp>>
    /\ UNCHANGED redactVars

\* The first client.responses.create.  A response goes on to extraction; an
\* exception that ShouldRetry accepts goes on to the retry; any other exception
\* reaches `except Exception` and becomes a 500 carrying str(e).
FirstCall(R) ==
    /\ pc = "received"
    /\ client
    /\ ~MissingRequired(payload)
    /\ \E r \in R \cup Errors :
          /\ calls' = <<FirstCallOf(payload, NO_RETRIEVAL)>>
          /\ results' = <<r>>
          /\ IF r.k = "response"
             THEN /\ resp' = r
                  /\ pc' = "extract"
                  /\ UNCHANGED response
             ELSE IF ShouldRetry(NO_RETRIEVAL, r)
                  THEN /\ pc' = "retry"
                       /\ UNCHANGED <<resp, response>>
                  ELSE /\ response' = HttpError(500, r.msg)
                       /\ pc' = "done"
                       /\ UNCHANGED resp
    /\ UNCHANGED <<client, payload, NO_RETRIEVAL>>
    /\ UNCHANGED redactVars

\* The retry inside the except clause.  Its exception is not caught there: it
\* reaches `except Exception` and becomes a 500 carrying str(e).
RetryCall(R) ==
    /\ pc = "retry"
    /\ \E r \in R \cup Errors :
          /\ calls' = Append(calls, RetryCallOf(payload, NO_RETRIEVAL))
          /\ results' = Append(results, r)
          /\ IF r.k = "response"
             THEN /\ resp' = r
                  /\ pc' = "extract"
                  /\ UNCHANGED response
             ELSE /\ response' = HttpError(500, r.msg)
                  /\ pc' = "done"
                  /\ UNCHANGED resp
    /\ UNCHANGED <<client, payload, NO_RETRIEVAL>>
    /\ UNCHANGED redactVars

\* Text extraction, to_dict(), redaction and the returned JSON.
Respond ==
    /\ pc = "extract"
    /\ response' = Ok(resp, NO_RETRIEVAL)
    /\ pc' = "done"
    /\ UNCHANGED <<client, payload, NO_RETRIEVAL, calls, results, resp>>
    /\ UNCHANGED redactVars

NextOver(P, R) ==
    \/ Receive(P)
    \/ ClientMissing
    \/ Reject
    \/ FirstCall(R)
    \/ RetryCall(R)
    \/ Respond

Next == NextOver(AllPayloads, SampleResponses)

\* Every request shape against a few provider responses.
Spec == Init /\ [][Next]_vars

NextExtract == NextOver(FewPayloads, TextResponses \cup RawResponses)

\* A few request shapes against every provider response of the bounded sets.
SpecExtract == Init /\ [][NextExtract]_vars

(* ------------------------------------------------------------------ *)
(* Properties of the handler                                           *)
(* ------------------------------------------------------------------ *)
\* A request field that is absent or empty.
FieldMissing(v) == v \in {Absent, None, Str("")}
\* A request field that was supplied with a value.
Supplied(v) == v.k = "str" /\ v.s # ""
\* The staged file ids of the request, <<>> when there are none.
StagedOf(p) == IF p.staged_file_ids.k = "list" THEN p.staged_file_ids.items ELSE <<>>

RequestMissingFields ==
    /\ payload # Absent
    /\ FieldMissing(payload.session_id) \/ FieldMissing(payload.text)

\* C1, as claimed: every request whose session_id or text is absent or empty is
\* answered with HTTP 400, and no provider call is made.
C1_Original ==
    (pc = "done" /\ RequestMissingFields) => (response.status = 400 /\ calls = <<>>)

\* C1, as the handler does it: a request whose session_id or text is absent or
\* empty never reaches a provider call, whatever its other fields; it is answered
\* with HTTP 400 when the provider client is initialised, and with HTTP 500 when
\* it is not (the client is looked at first).
C1_MissingFieldsRejected ==
    RequestMissingFields =>
        /\ calls = <<>>
        /\ pc \in {"received", "done"}
        /\ pc = "done" =>
              IF client THEN response = HttpError(400, MissingFieldsDetail)
              ELSE response = HttpError(500, ClientMissingDetail)

\* A request with files and a vector store but an empty text got its 400.
C1_Witness ==
    /\ pc = "done"
    /\ client
    /\ payload.session_id = Str("s1")
    /\ payload.text = Str("")
    /\ payload.vector_store_id = Str("vs1")
    /\ Len(StagedOf(payload)) = 2
    /\ response.status = 400

Unsupported(r) == r.k = "error" /\ r.class = "unsupported"

MetadataKeys == {"route", "session_id", "vector_store_id", "retrieval_disabled"}

UnknownParameter(r) == r.k = "error" /\ r.class = "unknown_parameter"

\* C3: when the first call carries tool_resources and is rejected with an
\* "unknown parameter" error, exactly one further call is made; it is the same
\* operation with the same model, input, tools and metadata and no
\* tool_resources, and the answer is built from that second call's result: 200
\* from its response, 500 from its exception.  There is never a third call.
C3_RetryWithoutToolResources ==
    /\ Len(calls) <= 2
    /\ (/\ Len(results) >= 1
        /\ calls[1].extra_body # Absent
        /\ UnknownParameter(results[1])) =>
           /\ pc \in {"retry", "extract", "done"}
           /\ pc = "retry" => Len(calls) = 1
           /\ pc # "retry" =>
                 /\ Len(calls) = 2
                 /\ calls[2].op = calls[1].op
                 /\ calls[2].args = calls[1].args
                 /\ calls[2].extra_body = Absent
                 /\ results[2].k = "response" => resp = results[2]
                 /\ pc = "done" =>
                       IF results[2].k = "response"
                       THEN /\ response.status = 200
                            /\ response.response_id = GetAttr(results[2].id)
                            /\ response = Ok(results[2], NO_RETRIEVAL)
                       ELSE response = HttpError(500, results[2].msg)

\* A call with tool_resources was rejected, the retry answered, and the request
\* ended with a 200.
C3_Witness ==
    /\ pc = "done"
    /\ Len(calls) = 2
    /\ calls[1].extra_body # Absent
    /\ UnknownParameter(results[1])
    /\ results[2].k = "response"
    /\ response.status = 200

\* The failure of call i is the rejection of a tool_resources binding that the
\* call did send.
ToolResourcesRejected(i) ==
    /\ UnknownParameter(results[i])
    /\ results[i].param = "tool_resources"
    /\ calls[i].extra_body # Absent

\* C4: a failed call that is not the rejection of a sent tool_resources
\* binding as an unknown parameter is the last call of the request, which ends
\* with HTTP 500 carrying that error's message.
C4_NoOtherRetry ==
    \A i \in 1..Len(results) :
        (results[i].k = "error" /\ ~ToolResourcesRejected(i)) =>
            /\ Len(calls) = i
            /\ pc = "done"
            /\ response = HttpError(500, results[i].msg)

\* C5: the first call of a valid request carries the file_search tool list
\* exactly when retrieval is not disabled and a vector_store_id was supplied
\* (non-empty) or there is a staged file id; and it carries a tool_resources
\* binding naming exactly the supplied vector_store_id whenever retrieval is not
\* disabled and a vector_store_id was supplied.
C5_ToolsAndBinding ==
    Len(calls) >= 1 =>
        /\ calls[1].args.tools \in {Absent, FileSearchTools}
        /\ (calls[1].args.tools = FileSearchTools) <=>
              (/\ ~NO_RETRIEVAL
               /\ Supplied(payload.vector_store_id) \/ Len(StagedOf(payload)) >= 1)
        /\ (~NO_RETRIEVAL /\ Supplied(payload.vector_store_id)) =>
              calls[1].extra_body =
                 Dict(<< <<"tool_resources",
                           [file_search |-> [vector_store_ids |-> <<payload.vector_store_id.s>>]]>> >>)

\* Retrieval enabled, staged files and no vector store: the tool list was sent,
\* the binding was not.
C5_Witness ==
    /\ Len(calls) >= 1
    /\ ~NO_RETRIEVAL
    /\ ~Supplied(payload.vector_store_id)
    /\ Len(StagedOf(payload)) >= 1
    /\ calls[1].args.tools = FileSearchTools
    /\ calls[1].extra_body = Absent

KeyStep(key) == [key |-> key, idx |-> 0]
IdxStep(i) == [key |-> "", idx |-> i]

\* Every node of a document with the path that leads to it: a dict with its
\* keys in order, a list with its length, a primitive with its value.
RECURSIVE NodesAt(_, _)
NodesAt(d, path) ==
    CASE d.k = "dict" ->
            {[path |-> path, kind |-> "dict", shape |-> [i \in 1..Len(d.kv) |-> d.kv[i][1]], val |-> None]}
            \cup UNION {NodesAt(d.kv[i][2], Append(path, KeyStep(d.kv[i][1]))) : i \in 1..Len(d.kv)}
      [] d.k = "list" ->
            {[path |-> path, kind |-> "list", shape |-> [i \in 1..Len(d.items) |-> ""], val |-> None]}
            \cup UNION {NodesAt(d.items[i], Append(path, IdxStep(i))) : i \in 1..Len(d.items)}
      [] OTHER -> {[path |-> path, kind |-> "prim", shape |-> <<>>, val |-> d]}

Nodes(d) == NodesAt(d, <<>>)

NotRedacted(key) == key \notin RedactedKeys

\* The nodes of a document that no redacted key leads to, each dict without its
\* redacted keys.
KeptNodes(d) ==
    {[n EXCEPT !.shape = IF n.kind = "dict" THEN SelectSeq(n.shape, NotRedacted) ELSE n.shape] :
        n \in {m \in Nodes(d) : \A i \in 1..Len(m.path) : m.path[i].key \notin RedactedKeys}}

\* Some dict of the document, at any depth, has a redacted key.
HasRedactedKey(d) ==
    \E n \in Nodes(d) : n.kind = "dict" /\ \E i \in 1..Len(n.shape) : n.shape[i] \in RedactedKeys

\* C7: in a successful response produced while retrieval is disabled, no dict
\* of the raw payload, at any depth through dicts and lists, has a key named
\* file_id, file_ids, vector_store_id, vector_store_ids or tool_resources, and
\* the raw payload is otherwise the serialised provider response; while
\* retrieval is enabled the raw payload is the serialised provider response.
C7_RawRedacted ==
    (pc = "done" /\ response.status = 200 /\ resp.body # Raises) =>
        IF NO_RETRIEVAL
        THEN /\ ~HasRedactedKey(response.raw)
             /\ Nodes(response.raw) = KeptNodes(resp.body)
        ELSE response.raw = resp.body

\* Retrieval disabled, and the serialised response had a redacted key inside a
\* list: the answer's raw payload differs from it.
C7_Witness ==
    /\ pc = "done"
    /\ response.status = 200
    /\ NO_RETRIEVAL
    /\ resp.body # Raises
    /\ resp.body.k = "list"
    /\ HasRedactedKey(resp.body)
    /\ response.raw # resp.body

(* ------------------------------------------------------------------ *)
(* The text of the answer                                              *)
(* ------------------------------------------------------------------ *)
NonEmptyText(v) == v.k = "str" /\ v.s # ""

\* The content parts of the first output item, <<>> when there is no such item
\* or it has no content.
FirstItemParts(r) ==
    IF r.output.k = "list" /\ Len(r.output.items) >= 1 /\ r.output.items[1].content.k = "list"
    THEN r.output.items[1].content.items
    ELSE <<>>

TypedParts(r) == {i \in 1..Len(FirstItemParts(r)) : FirstItemParts(r)[i].type \in TextTypes}
TypedPartsWithText(r) == {i \in TypedParts(r) : NonEmptyText(FirstItemParts(r)[i].text)}
First(S) == CHOOSE i \in S : \A j \in S : i <= j

\* The text as claimed: the first part of a text type decides, whatever its text.
ClaimedText(r) ==
    IF NonEmptyText(r.output_text) THEN r.output_text
    ELSE IF TypedParts(r) # {}
         THEN (IF NonEmptyText(FirstItemParts(r)[First(TypedParts(r))].text)
               THEN FirstItemParts(r)[First(TypedParts(r))].text
               ELSE Str(""))
         ELSE Str("")

\* The text as extracted: the first part of a text type with a non-empty text decides.
ExtractedText(r) ==
    IF NonEmptyText(r.output_text) THEN r.output_text
    ELSE IF TypedPartsWithText(r) # {}
         THEN FirstItemParts(r)[First(TypedPartsWithText(r))].text
         ELSE Str("")

\* C8, as claimed: the returned text is the top-level output_text when present
\* and non-empty; otherwise the text of the first content part of the first
\* output item whose type is "output_text" or "text"; otherwise the empty string.
C8_Original ==
    (pc = "done" /\ response.status = 200) => response.text = ClaimedText(resp)

\* C8, as the handler does it: the returned text is the top-level output_text
\* when present and non-empty; otherwise the text of the first content part of
\* the first output item whose type is "output_text" or "text" and whose text
\* is non-empty; and the empty string when there is no such part.  It is never null.
C8_ExtractedText ==
    (pc = "done" /\ response.status = 200) =>
        /\ response.text.k = "str"
        /\ response.text = ExtractedText(resp)

\* No top-level text, a first part of a text type with an empty text, then one
\* with "hello": the answer says "hello".
C8_Witness ==
    /\ pc = "done"
    /\ response.status = 200
    /\ ~NonEmptyText(resp.output_text)
    /\ Len(FirstItemParts(resp)) = 2
    /\ FirstItemParts(resp)[1] = [type |-> Str("text"), text |-> Str("")]
    /\ FirstItemParts(resp)[2] = [type |-> Str("output_text"), text |-> Str("hello")]
    /\ response.text = Str("hello")

\* C9: when the provider call succeeds and serialising its response fails, the
\* request still succeeds, with retrieval enabled or disabled: the answer is a
\* 200 with the extracted text, the response id, and a null raw payload.
C9_SerializationFailure ==
    (resp # Absent /\ resp.body = Raises) =>
        /\ pc \in {"extract", "done"}
        /\ pc = "done" =>
              /\ response.status = 200
              /\ response.text = ExtractedText(resp)
              /\ response.response_id = (IF resp.id = Absent THEN None ELSE resp.id)
              /\ response.raw = None

\* Retrieval disabled, to_dict() raised, and the answer is a 200 with a text
\* and an id.
C9_Witness ==
    /\ pc = "done"
    /\ NO_RETRIEVAL
    /\ resp # Absent
    /\ resp.body = Raises
    /\ response.status = 200
    /\ response.text = Str("hello")
    /\ response.response_id = Str("r1")
    /\ response.raw = None

(* ------------------------------------------------------------------ *)
(* The redactor on its own: redact a raw payload, then redact the      *)
(* result once more.                                                   *)
(* ------------------------------------------------------------------ *)
InitRedact ==
    /\ doc \in RawPayloads
    /\ once = Absent
    /\ twice = Absent
    /\ client = FALSE
    /\ pc = "redact"
    /\ payload = Absent
    /\ NO_RETRIEVAL = TRUE
    /\ calls = <<>>
    /\ results = <<>>
    /\ resp = Absent
    /\ response = Absent

RedactOnce ==
    /\ pc = "redact"
    /\ once = Absent
    /\ once' = _redact(doc)
    /\ UNCHANGED <<doc, twice>>
    /\ UNCHANGED handlerVars

RedactAgain ==
    /\ pc = "redact"
    /\ once # Absent
    /\ twice = Absent
    /\ twice' = _redact(once)
    /\ UNCHANGED <<doc, once>>
    /\ UNCHANGED handlerVars

NextRedact == RedactOnce \/ RedactAgain

SpecRedact == InitRedact /\ [][NextRedact]_vars

\* The number of entries of every dict of a document, summed.
RECURSIVE EntryCount(_)
RECURSIVE SumEntries(_, _)
SumEntries(q, i) == IF i > Len(q) THEN 0 ELSE EntryCount(q[i]) + SumEntries(q, i + 1)
EntryCount(d) ==
    CASE d.k = "dict" -> Len(d.kv) + SumEntries([i \in 1..Len(d.kv) |-> d.kv[i][2]], 1)
      [] d.k = "list" -> SumEntries(d.items, 1)
      [] OTHER -> 0

\* C10: redaction is idempotent: redacting the result of a redaction gives the
\* same document as the first redaction, and the second pass removes no key.
C10_RedactIdempotent ==
    twice # Absent => (twice = once /\ EntryCount(twice) = EntryCount(once))

\* A document with two neighbouring redacted keys, or one below a list, has been
\* redacted twice.
C10_Witness ==
    /\ twice # Absent
    /\ doc.k = "dict"
    /\ Len(doc.kv) >= 2
    /\ doc.kv[1][1] \in RedactedKeys
    /\ doc.kv[2][1] \in RedactedKeys
    /\ once = Dict(<<>>)

====
